---- MODULE Spec2Model ----
(***************************************************************************)
(* Model of the response-classification and response-normalisation core    *)
(* of the Openfire REST API client (package ofrestapi).                    *)
(*                                                                         *)
(*   Base._submit_request                 src/ofrestapi/base.py            *)
(*   SecurityAuditLog.extract_log_entries src/ofrestapi/security.py        *)
(*                                                                         *)
(* A call is modelled as one step: Init draws the client, the arguments    *)
(* of the call and the response the server will give from bounded sets,    *)
(* and the action of the called method computes the outcome the way the    *)
(* Python code does, including the exceptions the interpreter raises.      *)
(***************************************************************************)
EXTENDS Integers, Sequences, FiniteSets, TLC

VARIABLES
    client,     \* the fields of the Base object: host, endpoint, headers, verify_ssl
    pc,         \* "ready" before the call, "done" after it
    args,       \* the call: the method and its arguments
    r,          \* the requests.Response the transport returns to the call
    request,    \* the keyword arguments func(...) was called with
    outcome,    \* what the call returned or raised
    ctor,       \* the arguments the client was constructed with
    ncalls,     \* calls made so far of operations that talk to the server
    nrequests   \* HTTP requests sent so far

vars == <<client, pc, args, r, request, outcome, ctor, ncalls, nrequests>>

-----------------------------------------------------------------------------
(* Bounds of the model *)

\* longest JSON array in a response
MaxLen == 2
\* number of distinct non-empty log entries
MaxLogId == 2
\* longest sequence of calls on one client
MaxCalls == 3

-----------------------------------------------------------------------------
(* Python values decoded from JSON.  Each value carries its type, so that  *)
(* isinstance, truthiness, hashing and attribute lookup can be modelled.   *)

JNull == [t |-> "null"]
JBool(b) == [t |-> "bool", b |-> b]
JNum(n) == [t |-> "num", n |-> n]
JStr(s) == [t |-> "str", s |-> s]
JArr(a) == [t |-> "arr", a |-> a]
JObj(o) == [t |-> "obj", o |-> o]

\* the f-string  f"{prefix}{arg}"
FStr(prefix, arg) == [t |-> "fstr", prefix |-> prefix, arg |-> arg]

EmptyDict == [k \in {} |-> JNull]
Dict1(k, v) == [x \in {k} |-> v]
Dict2(k1, v1, k2, v2) == [x \in {k1, k2} |-> IF x = k1 THEN v1 ELSE v2]

\* isinstance(v, list), isinstance(v, dict)
IsList(v) == v.t = "arr"
IsDict(v) == v.t = "obj"

\* bool(v): None, False, 0, "", [] and {} are falsy
Truthy(v) ==
    CASE v.t = "null" -> FALSE
      [] v.t = "bool" -> v.b
      [] v.t = "num"  -> v.n # 0
      [] v.t = "str"  -> v.s # ""
      [] v.t = "arr"  -> Len(v.a) > 0
      [] v.t = "obj"  -> DOMAIN v.o # {}
      [] OTHER        -> TRUE

\* hash(v) is defined: lists and dicts are unhashable
Hashable(v) == v.t \notin {"arr", "obj"}

\* str(v) as an f-string renders it
PyStr(v) ==
    CASE v.t = "null" -> "None"
      [] v.t = "bool" -> IF v.b THEN "True" ELSE "False"
      [] v.t = "num"  -> ToString(v.n)
      [] v.t = "str"  -> v.s
      [] v.t = "arr"  -> "[...]"
      [] v.t = "obj"  -> "{...}"

\* d.get(key, default) of a dict
DictGet(d, key, default) == IF key \in DOMAIN d.o THEN d.o[key] ELSE default

-----------------------------------------------------------------------------
(* Outcomes of a call *)

NoOutcome == [kind |-> "none"]
Return(v) == [kind |-> "return", value |-> v]
Raise(exc, message) == [kind |-> "raise", exc |-> exc, message |-> message]

NoRequest == [sent |-> FALSE]
NoResponse == [received |-> FALSE]

-----------------------------------------------------------------------------
(* The exception classes of ofrestapi.exception and the error-kind table.  *)

\* the subclasses of OpenfireApiException
OpenfireApiException ==
    { "OpenfireApiException",
      "IllegalArgumentException", "UserNotFoundException",
      "UserAlreadyExistsException", "RequestNotAuthorisedException",
      "UserServiceDisabledException", "SharedGroupException",
      "InvalidResponseException", "PropertyNotFoundException",
      "GroupAlreadyExistsException", "GroupNotFoundException",
      "RoomNotFoundException", "NotAllowedException",
      "AlreadyExistsException" }

\* server tag -> exception class
EXCEPTIONS_MAP ==
    [ IllegalArgumentException    |-> "IllegalArgumentException",
      UserNotFoundException       |-> "UserNotFoundException",
      UserAlreadyExistsException  |-> "UserAlreadyExistsException",
      RequestNotAuthorised        |-> "RequestNotAuthorisedException",
      UserServiceDisabled         |-> "UserServiceDisabledException",
      SharedGroupException        |-> "SharedGroupException",
      PropertyNotFoundException   |-> "PropertyNotFoundException",
      GroupAlreadyExistsException |-> "GroupAlreadyExistsException",
      GroupNotFoundException      |-> "GroupNotFoundException",
      RoomNotFoundException       |-> "RoomNotFoundException",
      NotAllowedException         |-> "NotAllowedException",
      AlreadyExistsException      |-> "AlreadyExistsException" ]

\* `exception in EXCEPTIONS_MAP` for a hashable value: only a str can equal a key
InExceptionsMap(exception) ==
    exception.t = "str" /\ exception.s \in DOMAIN EXCEPTIONS_MAP

-----------------------------------------------------------------------------
(* Base._submit_request: classification of the response.                   *)

\* r.json() of the requests library: the decoded body, or ValueError when the
\* body is not a JSON text
r_json(resp) ==
    IF resp.body.raw = "json"
    THEN [ok |-> TRUE, value |-> resp.body.doc]
    ELSE [ok |-> FALSE]

\* a success branch that treats a tagged object as a failure
submit_success_tagged(resp) ==
    LET d == r_json(resp) IN
    IF d.ok
    THEN IF IsDict(d.value) /\ "exception" \in DOMAIN d.value.o
         THEN Raise("InvalidResponseException",
                    FStr("Unknown exception: ", PyStr(d.value.o["exception"])))
         ELSE Return(d.value)
    ELSE Return(JBool(TRUE))

\* a success branch that does not catch the ValueError of an empty body
submit_success_uncaught(resp) ==
    LET d == r_json(resp) IN
    IF d.ok THEN Return(d.value)
    ELSE Raise("ValueError", FStr("Expecting value: ", resp.body.raw))

\* the branch for status 200 / 201
submit_success(resp) ==
    LET d == r_json(resp) IN
    IF d.ok THEN Return(d.value)
    ELSE Return(JBool(TRUE))

\* an except clause that swallows the ValueError and goes on with exception = None
submit_undecodable_swallowed(resp) ==
    Raise("InvalidResponseException", FStr("Unknown exception: ", "None"))

\* except ValueError: the body of a failure is not JSON
submit_undecodable(resp) ==
    Raise("InvalidResponseException",
          FStr("Invalid response with status code: ", ToString(resp.status_code)))

\* a raise that constructs the mapped class without the message
submit_raise_bare(exception, message) ==
    IF ~Hashable(exception)
    THEN Raise("TypeError", FStr("unhashable type: ", exception.t))
    ELSE IF InExceptionsMap(exception)
    THEN Raise(EXCEPTIONS_MAP[exception.s], JNull)
    ELSE Raise("InvalidResponseException",
               FStr("Unknown exception: ", PyStr(exception)))

\* a raise that reports the message of an unknown tag instead of the tag
submit_raise_message(exception, message) ==
    IF ~Hashable(exception)
    THEN Raise("TypeError", FStr("unhashable type: ", exception.t))
    ELSE IF InExceptionsMap(exception)
    THEN Raise(EXCEPTIONS_MAP[exception.s], message)
    ELSE Raise("InvalidResponseException",
               FStr("Unknown exception: ", PyStr(message)))

\* the lookup of the tag in the table and the raise
submit_raise(exception, message) ==
    IF ~Hashable(exception)
    \* `exception in EXCEPTIONS_MAP` hashes the value
    THEN Raise("TypeError", FStr("unhashable type: ", exception.t))
    ELSE IF InExceptionsMap(exception)
    THEN Raise(EXCEPTIONS_MAP[exception.s], message)
    ELSE Raise("InvalidResponseException",
               FStr("Unknown exception: ", PyStr(exception)))

\* a failure branch whose message has no default
submit_failure_nodefault(resp) ==
    LET d == r_json(resp) IN
    IF ~d.ok THEN submit_undecodable(resp)
    ELSE IF ~IsDict(d.value)
    THEN Raise("AttributeError", FStr("object has no attribute 'get': ", d.value.t))
    ELSE submit_raise(DictGet(d.value, "exception", JNull),
                      DictGet(d.value, "message", JNull))

\* the branch for every other status
submit_failure(resp) ==
    LET d == r_json(resp) IN
    IF ~d.ok THEN submit_undecodable(resp)
    ELSE IF ~IsDict(d.value)
    \* response_json.get: list, str, int, bool and None have no attribute get
    THEN Raise("AttributeError", FStr("object has no attribute 'get': ", d.value.t))
    ELSE submit_raise(DictGet(d.value, "exception", JNull),
                      DictGet(d.value, "message", JStr("Unknown error")))

\* a classification that takes every 2xx status for a success
submit_classify_2xx(resp) ==
    IF resp.status_code >= 200 /\ resp.status_code < 300
    THEN submit_success(resp)
    ELSE submit_failure(resp)

\* the classification of the response r
submit_classify(resp) ==
    IF resp.status_code \in {200, 201}
    THEN submit_success(resp)
    ELSE submit_failure(resp)

\* keyword arguments that wrap the secret in a Bearer scheme
submit_kwargs_bearer(self, endpoint, kwargs) ==
    [ headers |-> [self.headers EXCEPT
                      !["Authorization"] = "Bearer " \o self.headers["Authorization"]],
      url     |-> <<self.host, endpoint>>,
      verify  |-> IF kwargs.has_verify THEN kwargs.verify ELSE self.verify_ssl ]

\* keyword arguments whose verify is always the client's verify_ssl
submit_kwargs_client_verify(self, endpoint, kwargs) ==
    [ headers |-> self.headers,
      url     |-> <<self.host, endpoint>>,
      verify  |-> self.verify_ssl ]

\* the keyword arguments func is called with
submit_kwargs(self, endpoint, kwargs) ==
    [ headers |-> self.headers,
      url     |-> <<self.host, endpoint>>,
      verify  |-> IF kwargs.has_verify THEN kwargs.verify ELSE self.verify_ssl ]

\* a _submit_request that sends the request again when the status is a failure
submit_request_retry(self, func, endpoint, kwargs, resp) ==
    [ self    |-> self,
      request |-> [func |-> func, kwargs |-> submit_kwargs(self, endpoint, kwargs)],
      sent    |-> IF resp.status_code \in {200, 201} THEN 1 ELSE 2,
      outcome |-> submit_classify(resp) ]

\* a _submit_request that keeps the endpoint of the call on the client
submit_request_keeps_endpoint(self, func, endpoint, kwargs, resp) ==
    [ self    |-> [self EXCEPT !.endpoint = endpoint],
      request |-> [func |-> func, kwargs |-> submit_kwargs(self, endpoint, kwargs)],
      sent    |-> 1,
      outcome |-> submit_classify(resp) ]

\* Base._submit_request(func, endpoint, **kwargs) when the transport answers
\* with resp: the client after the call, the request func was called with, the
\* number of calls of func, and what the method returns or raises
submit_request(self, func, endpoint, kwargs, resp) ==
    [ self    |-> self,
      request |-> [func |-> func, kwargs |-> submit_kwargs(self, endpoint, kwargs)],
      sent    |-> 1,
      outcome |-> submit_classify(resp) ]

-----------------------------------------------------------------------------
(* SecurityAuditLog.extract_log_entries                                    *)

\* `"logs" in x`: key of a dict, element of a list, substring of a str;
\* TypeError for a value that is not iterable
PyContains(key, x) ==
    CASE x.t = "obj" -> [ok |-> TRUE, value |-> key \in DOMAIN x.o]
      [] x.t = "arr" -> [ok |-> TRUE, value |-> \E i \in 1..Len(x.a) : x.a[i] = JStr(key)]
      \* on the strs of the model ("", "x" and the key names) substring is equality
      [] x.t = "str" -> [ok |-> TRUE, value |-> x.s = key]
      [] OTHER       -> [ok |-> FALSE]

\* a version that returns the value under logs.log as it is
extract_log_nowrap(log) == log

\* a version that wraps whatever is under logs.log
extract_log_wrapall(log) == JArr(<<log>>)

\* the value under logs.log
extract_log(log) ==
    IF IsDict(log) THEN JArr(<<log>>)
    ELSE log

\* a version that hands back the value under the outer key when it has no 'log'
extract_logs_passthrough(logs) ==
    IF IsList(logs) THEN logs
    ELSE IF IsDict(logs) /\ "log" \in DOMAIN logs.o THEN extract_log(logs.o["log"])
    ELSE IF logs = JNull \/ logs = JArr(<<>>) THEN JArr(<<>>)
    ELSE logs

\* a version without the branch for a list under the outer key
extract_logs_nolist(logs) ==
    IF IsDict(logs) /\ "log" \in DOMAIN logs.o THEN extract_log(logs.o["log"])
    ELSE JArr(<<>>)

\* the value under the outer key
extract_logs(logs) ==
    IF IsList(logs) THEN logs
    ELSE IF IsDict(logs) /\ "log" \in DOMAIN logs.o THEN extract_log(logs.o["log"])
    ELSE IF logs = JNull \/ logs = JArr(<<>>) THEN JArr(<<>>)
    ELSE JArr(<<>>)

extract_log_entries(logs_response) ==
    IF ~Truthy(logs_response) THEN Return(JArr(<<>>))
    ELSE
        LET c == PyContains("logs", logs_response) IN
        IF ~c.ok
        THEN Raise("TypeError", FStr("argument is not iterable: ", logs_response.t))
        ELSE IF c.value
        THEN IF IsDict(logs_response)
             THEN Return(extract_logs(logs_response.o["logs"]))
             \* logs_response["logs"] on a list or a str
             ELSE Raise("TypeError", FStr("indices must be integers: ", logs_response.t))
        ELSE Return(JArr(<<>>))

-----------------------------------------------------------------------------
(* Base.__init__ *)

Base_init(host, secret, endpoint, verify_ssl) ==
    [ headers    |-> [Authorization |-> secret, Accept |-> "application/json"],
      host       |-> host,
      endpoint   |-> endpoint,
      verify_ssl |-> verify_ssl ]

-----------------------------------------------------------------------------
(* The resource clients and their public operations                        *)

\* the default endpoint of each resource client, split at its last "/"
EndpointParts ==
    [ Users            |-> [head |-> "/plugins/restapi/v1", tail |-> "users"],
      Groups           |-> [head |-> "/plugins/restapi/v1", tail |-> "groups"],
      Muc              |-> [head |-> "/plugins/restapi/v1", tail |-> "chatrooms"],
      Sessions         |-> [head |-> "/plugins/restapi/v1", tail |-> "sessions"],
      Messages         |-> [head |-> "/plugins/restapi/v1/messages", tail |-> "users"],
      System           |-> [head |-> "/plugins/restapi/v1/system", tail |-> "properties"],
      SecurityAuditLog |-> [head |-> "/plugins/restapi/v1/logs", tail |-> "security"] ]

ClientClasses == DOMAIN EndpointParts

DefaultEndpoint(cls) == EndpointParts[cls].head \o "/" \o EndpointParts[cls].tail

\* Users(host, secret), Groups(host, secret), ...: super().__init__(host, secret, endpoint)
Class_init(cls, host, secret) == Base_init(host, secret, DefaultEndpoint(cls), TRUE)

\* endpoint.rpartition("/")[0] of a default endpoint
Rpartition0(endpoint) ==
    EndpointParts[CHOOSE c \in ClientClasses : DefaultEndpoint(c) = endpoint].head

\* "/".join(parts)
RECURSIVE JoinSlash(_)
JoinSlash(parts) ==
    IF Len(parts) = 1 THEN parts[1]
    ELSE JoinSlash(SubSeq(parts, 1, Len(parts) - 1)) \o "/" \o parts[Len(parts)]

Op(cls, name, func, root, path, kind) ==
    [cls |-> cls, name |-> name, func |-> func, root |-> root, path |-> path, kind |-> kind]

\* the operations whose body is `return self._submit_request(func, endpoint, ...)`:
\* the requests function, where the endpoint starts ("endpoint": self.endpoint,
\* "parent": self.endpoint.rpartition("/")[0], "archive": a fixed path) and the
\* segments joined to it ("<name>", "<sub>" and "<role>" stand for arguments);
\* kind "write" marks the operations documented to return True if successful
PassthroughOps ==
    { Op("Users", "get_user", "get", "endpoint", <<"<name>">>, "read"),
      Op("Users", "get_users", "get", "endpoint", <<>>, "read"),
      Op("Users", "add_user", "post", "endpoint", <<>>, "write"),
      Op("Users", "delete_user", "delete", "endpoint", <<"<name>">>, "write"),
      Op("Users", "update_user", "put", "endpoint", <<"<name>">>, "write"),
      Op("Users", "get_user_groups", "get", "endpoint", <<"<name>", "groups">>, "read"),
      Op("Users", "add_user_groups", "post", "endpoint", <<"<name>", "groups">>, "write"),
      Op("Users", "delete_user_groups", "delete", "endpoint", <<"<name>", "groups">>, "write"),
      Op("Users", "lock_user", "post", "parent", <<"lockouts", "<name>">>, "write"),
      Op("Users", "unlock_user", "delete", "parent", <<"lockouts", "<name>">>, "write"),
      Op("Users", "get_user_roster", "get", "endpoint", <<"<name>", "roster">>, "read"),
      Op("Users", "add_user_roster_item", "post", "endpoint", <<"<name>", "roster">>, "write"),
      Op("Users", "delete_user_roster_item", "delete", "endpoint",
         <<"<name>", "roster", "<sub>">>, "write"),
      Op("Users", "update_user_roster_item", "put", "endpoint",
         <<"<name>", "roster", "<sub>">>, "write"),
      Op("Groups", "get_groups", "get", "endpoint", <<>>, "read"),
      Op("Groups", "get_group", "get", "endpoint", <<"<name>">>, "read"),
      Op("Groups", "add_group", "post", "endpoint", <<>>, "write"),
      Op("Groups", "delete_group", "delete", "endpoint", <<"<name>">>, "write"),
      Op("Groups", "update_group", "put", "endpoint", <<"<name>">>, "write"),
      Op("Muc", "get_room", "get", "endpoint", <<"<name>">>, "read"),
      Op("Muc", "get_rooms", "get", "endpoint", <<>>, "read"),
      Op("Muc", "get_room_users", "get", "endpoint", <<"<name>", "participants">>, "read"),
      Op("Muc", "add_room", "post", "endpoint", <<>>, "write"),
      Op("Muc", "delete_room", "delete", "endpoint", <<"<name>">>, "write"),
      Op("Muc", "update_room", "put", "endpoint", <<"<name>">>, "write"),
      Op("Muc", "grant_user_role", "post", "endpoint", <<"<name>", "<role>", "<sub>">>, "write"),
      Op("Muc", "revoke_user_role", "delete", "endpoint", <<"<name>", "<role>", "<sub>">>, "write"),
      Op("Messages", "send_broadcast", "post", "endpoint", <<>>, "write"),
      Op("Messages", "get_unread_messages", "get", "archive", <<"<sub>">>, "read"),
      Op("System", "get_props", "get", "endpoint", <<>>, "read"),
      Op("System", "get_prop", "get", "endpoint", <<"<name>">>, "read"),
      Op("System", "update_prop", "post", "endpoint", <<>>, "write"),
      Op("System", "delete_prop", "delete", "endpoint", <<"<name>">>, "write"),
      Op("System", "get_concurrent_sessions", "get", "parent", <<"statistics", "sessions">>, "read"),
      Op("Sessions", "get_sessions", "get", "endpoint", <<>>, "read"),
      Op("Sessions", "get_user_sessions", "get", "endpoint", <<"<name>">>, "read"),
      Op("Sessions", "close_user_sessions", "delete", "endpoint", <<"<name>">>, "write"),
      Op("SecurityAuditLog", "get_logs", "get", "endpoint", <<>>, "read"),
      Op("SecurityAuditLog", "get_logs_by_username", "get", "endpoint", <<>>, "read"),
      Op("SecurityAuditLog", "get_recent_logs", "get", "endpoint", <<>>, "read"),
      Op("SecurityAuditLog", "get_logs_in_timeframe", "get", "endpoint", <<>>, "read") }

\* the two operations of Sessions built on get_user_sessions
SessionOps ==
    { Op("Sessions", "is_user_online", "get", "endpoint", <<"<name>">>, "read"),
      Op("Sessions", "get_user_session_details", "get", "endpoint", <<"<name>">>, "read") }

\* the public operations that talk to the server
PublicOps == PassthroughOps \cup SessionOps

\* the segments of the path with the arguments of the call filled in
PathOf(path, a) ==
    [i \in 1..Len(path) |->
        CASE path[i] = "<name>" -> a.name
          [] path[i] = "<sub>"  -> a.sub
          [] path[i] = "<role>" -> a.role
          [] OTHER              -> path[i]]

\* the endpoint an operation passes to _submit_request
op_endpoint(self, op, a) ==
    LET start == CASE op.root = "endpoint" -> self.endpoint
                   [] op.root = "parent"   -> Rpartition0(self.endpoint)
                   [] op.root = "archive"  -> "/plugins/restapi/v1/archive/messages/unread"
    IN  JoinSlash(<<start>> \o PathOf(op.path, a))

\* no operation passes `verify`
OpKwargs == [has_verify |-> FALSE, verify |-> FALSE]

\* an operation that catches what _submit_request raises and returns False
passthrough_swallow(self, op, a, resp) ==
    LET e == submit_request(self, op.func, op_endpoint(self, op, a), OpKwargs, resp)
    IN  IF e.outcome.kind = "raise"
        THEN [e EXCEPT !.outcome = Return(JBool(FALSE))]
        ELSE e

\* return self._submit_request(func, endpoint, ...)
passthrough(self, op, a, resp) ==
    submit_request(self, op.func, op_endpoint(self, op, a), OpKwargs, resp)

-----------------------------------------------------------------------------
(* Sessions.is_user_online and Sessions.get_user_session_details           *)

\* Sessions.get_user_sessions(username)
get_user_sessions(self, username, resp) ==
    submit_request(self, "get", JoinSlash(<<self.endpoint, username>>), OpKwargs, resp)

\* x[key] for a str key: the value of a dict, TypeError for a list or a str
PyIndex(x, key) ==
    IF IsDict(x) THEN [ok |-> TRUE, value |-> x.o[key]] ELSE [ok |-> FALSE]

\* the body of the try block of is_user_online, given what get_user_sessions returned
online_of(sessions) ==
    LET c == PyContains("sessions", sessions) IN
    IF ~c.ok
    THEN Raise("TypeError", FStr("argument is not iterable: ", sessions.t))
    ELSE IF ~c.value THEN Return(JBool(FALSE))
    ELSE LET v == PyIndex(sessions, "sessions") IN
         IF ~v.ok
         THEN Raise("TypeError", FStr("indices must be integers: ", sessions.t))
         ELSE IF Truthy(v.value) THEN Return(JBool(TRUE))
         ELSE Return(JBool(FALSE))

\* the value under sessions.session
details_of_session(session_data) ==
    IF IsDict(session_data) THEN JArr(<<session_data>>)
    ELSE IF IsList(session_data) THEN session_data
    ELSE JArr(<<>>)

\* the body of the try block of get_user_session_details
details_of(sessions) ==
    IF ~Truthy(sessions) THEN Return(JArr(<<>>))
    ELSE
        LET c == PyContains("sessions", sessions) IN
        IF ~c.ok
        THEN Raise("TypeError", FStr("argument is not iterable: ", sessions.t))
        ELSE IF ~c.value THEN Return(JArr(<<>>))
        ELSE LET v == PyIndex(sessions, "sessions") IN
             IF ~v.ok
             THEN Raise("TypeError", FStr("indices must be integers: ", sessions.t))
             ELSE IF IsList(v.value) THEN Return(v.value)
             ELSE IF IsDict(v.value) /\ "session" \in DOMAIN v.value.o
             THEN Return(details_of_session(v.value.o["session"]))
             ELSE Return(JArr(<<>>))

\* a try block without the except clause
TryExcept_reraise(body, default) == body

\* try: <body> except Exception: return default
TryExcept(body, default) ==
    IF body.kind = "raise" THEN Return(default) ELSE body

\* Sessions.is_user_online(username)
is_user_online(self, username, resp) ==
    LET e == get_user_sessions(self, username, resp) IN
    [e EXCEPT !.outcome =
        TryExcept(IF e.outcome.kind = "raise" THEN e.outcome
                  ELSE online_of(e.outcome.value),
                  JBool(FALSE))]

\* Sessions.get_user_session_details(username)
get_user_session_details(self, username, resp) ==
    LET e == get_user_sessions(self, username, resp) IN
    [e EXCEPT !.outcome =
        TryExcept(IF e.outcome.kind = "raise" THEN e.outcome
                  ELSE details_of(e.outcome.value),
                  JArr(<<>>))]

-----------------------------------------------------------------------------
(* The room list of scripts/list_muc.py and                                *)
(* scripts/export_muc_for_elasticsearch.py                                 *)

\* rooms_list as computed from the result of Muc.get_rooms
rooms_list(result) ==
    IF IsDict(result) /\ "chatRooms" \in DOMAIN result.o
    THEN LET chatRooms == result.o["chatRooms"] IN
         IF IsList(chatRooms) THEN chatRooms
         ELSE IF IsDict(chatRooms) /\ "chatRoom" \in DOMAIN chatRooms.o
         THEN chatRooms.o["chatRoom"]
         ELSE JArr(<<>>)
    ELSE IF IsList(result) THEN result
    ELSE JArr(<<>>)

\* muc_api = Muc(host, token); muc_api.verify_ssl = not insecure;
\* result = muc_api.get_rooms(...); rooms_list from result
list_muc_rooms(self, insecure, resp) ==
    LET api == [self EXCEPT !.verify_ssl = ~insecure]
        e   == submit_request(api, "get", api.endpoint, OpKwargs, resp)
    IN  IF e.outcome.kind = "raise" THEN e
        ELSE [e EXCEPT !.outcome = Return(rooms_list(e.outcome.value))]

-----------------------------------------------------------------------------
(* The inputs the calls are checked on *)

Hosts == {"http://localhost:9090"}
Secrets == {"fred", "s3cret"}
Endpoints == {"/plugins/restapi/v1/logs/security", "/plugins/restapi/v1/users"}
Funcs == {"get", "post"}

Clients ==
    { Base_init(h, s, e, v) : h \in Hosts, s \in Secrets, e \in Endpoints, v \in BOOLEAN }

\* the arguments of Base(host, secret, endpoint, verify_ssl)
BaseCtors ==
    [ cls : {"Base"}, host : Hosts, secret : Secrets, endpoint : Endpoints,
      verify_ssl : BOOLEAN ]

\* the object a constructor call builds
Construct(c) == Base_init(c.host, c.secret, c.endpoint, c.verify_ssl)

\* **kwargs of _submit_request: with or without a caller-supplied verify
Kwargs ==
    { [has_verify |-> FALSE, verify |-> FALSE],
      [has_verify |-> TRUE,  verify |-> FALSE],
      [has_verify |-> TRUE,  verify |-> TRUE] }

StatusCodes == {200, 201, 202, 204, 400, 404, 500}

Scalars ==
    { JNull, JBool(TRUE), JBool(FALSE), JNum(0), JNum(1),
      JStr(""), JStr("x"), JStr("logs") }

\* a log entry
Entry(i) == JObj(Dict1("logId", JNum(i)))

Mappings == {JObj(EmptyDict)} \cup {Entry(i) : i \in 1..MaxLogId}

SeqElems == Mappings \cup {JNull, JStr("logs")}

Seqs == {JArr(s) : s \in UNION {[1..n -> SeqElems] : n \in 0..MaxLen}}

\* the values found under the secondary key
LogValues == Scalars \cup Mappings \cup Seqs

\* the values found under the outer key
LogsValues ==
    Scalars \cup Seqs \cup Mappings
    \cup {JObj(Dict1("log", v)) : v \in LogValues}
    \cup {JObj(Dict2("log", v, "count", JNum(1))) : v \in Mappings}

Envelopes ==
    Scalars \cup Seqs \cup Mappings
    \cup {JObj(Dict1("logs", v)) : v \in LogsValues}
    \cup {JObj(Dict1("other", v)) : v \in LogsValues}

\* the values a server puts under "exception"
Tags ==
    {JStr(t) : t \in DOMAIN EXCEPTIONS_MAP}
    \cup { JStr("SomeOtherException"), JStr(""), JNull, JNum(1), JBool(TRUE),
           JArr(<<>>), JObj(EmptyDict) }

\* the values a server puts under "message"
Messages == {JStr("x"), JStr("UserNotFoundException"), JNull}

ErrorDocs ==
    {JObj(Dict1("exception", t)) : t \in Tags}
    \cup {JObj(Dict1("message", m)) : m \in Messages}
    \cup {JObj(Dict2("exception", t, "message", m)) : t \in Tags, m \in Messages}

\* response bodies: no text, a text that is not JSON, a JSON text
Bodies ==
    {[raw |-> "empty"], [raw |-> "html"]}
    \cup {[raw |-> "json", doc |-> d] : d \in Envelopes \cup ErrorDocs}

Responses == {[status_code |-> c, body |-> b] : c \in StatusCodes, b \in Bodies}

\* the arguments of an operation: a user, room, group or property name, a
\* JID or second name, a role
OpArgs == [name |-> "admin", sub |-> "admin@example.org", role |-> "owners"]

\* d with the key `from` renamed to `to`
RenameKey(d, from, to) ==
    [k \in {IF x = from THEN to ELSE x : x \in DOMAIN d} |->
        d[IF k = to /\ from \in DOMAIN d THEN from ELSE k]]

\* the envelope e with the outer key o1 renamed to o2 and, in the mapping
\* under it, the secondary key i1 renamed to i2
RenameKeys(e, o1, i1, o2, i2) ==
    IF ~IsDict(e) THEN e
    ELSE LET inner(v) == IF IsDict(v) THEN JObj(RenameKey(v.o, i1, i2)) ELSE v
             d == [k \in DOMAIN e.o |-> IF k = o1 THEN inner(e.o[k]) ELSE e.o[k]]
         IN  JObj(RenameKey(d, o1, o2))

\* the envelopes of the session requests: outer key 'sessions', secondary 'session'
SessionEnvelopes ==
    {RenameKeys(e, "logs", "log", "sessions", "session") : e \in Envelopes}
    \cup {JStr("sessions"), JArr(<<JStr("sessions")>>)}

\* the envelopes of Muc.get_rooms: outer key 'chatRooms', secondary 'chatRoom'
RoomEnvelopes ==
    {RenameKeys(e, "logs", "log", "chatRooms", "chatRoom") : e \in Envelopes}

JsonBodies(docs) == {[raw |-> "json", doc |-> d] : d \in docs}

NoJsonBodies == {[raw |-> "empty"], [raw |-> "html"]}

ResponsesWith(bodies) == {[status_code |-> c, body |-> b] : c \in StatusCodes, b \in bodies}

\* the responses to the operations that hand back what _submit_request gives
OpResponses ==
    ResponsesWith(NoJsonBodies
                  \cup JsonBodies(ErrorDocs \cup Scalars \cup Mappings
                                  \cup {JArr(<<>>), JArr(<<Entry(1)>>)}))

\* the responses to the session request of a user
SessionResponses ==
    ResponsesWith(NoJsonBodies \cup JsonBodies(SessionEnvelopes \cup ErrorDocs))

\* the responses to Muc.get_rooms
RoomResponses ==
    ResponsesWith(NoJsonBodies \cup JsonBodies(RoomEnvelopes \cup ErrorDocs))

\* the responses of the server in a sequence of calls
CallResponses ==
    { [status_code |-> c, body |-> b] :
        c \in {200, 404},
        b \in NoJsonBodies
              \cup JsonBodies({ JNull,
                                JObj(Dict1("sessions", JArr(<<Entry(1)>>))),
                                JObj(Dict2("exception", JStr("UserNotFoundException"),
                                           "message", JStr("x"))) }) }

\* the arguments of X(host, secret) for a resource client X
ClassCtor(cls, host, secret) ==
    [ cls |-> cls, host |-> host, secret |-> secret,
      endpoint |-> DefaultEndpoint(cls), verify_ssl |-> TRUE ]

\* the call of a public operation
OpCall(op) == [op |-> op.name, operation |-> op, a |-> OpArgs]

NoCall == [op |-> "none"]

-----------------------------------------------------------------------------
(* The state machine *)

InitSubmit ==
    /\ ctor \in BaseCtors
    /\ client = Construct(ctor)
    /\ ncalls = 1
    /\ \E f \in Funcs, k \in Kwargs :
          args = [op |-> "_submit_request", func |-> f,
                  endpoint |-> client.endpoint, kwargs |-> k]
    /\ r \in Responses

InitExtract ==
    /\ ctor \in BaseCtors
    /\ client = Construct(ctor)
    /\ ncalls = 0
    /\ \E e \in Envelopes :
          args = [op |-> "extract_log_entries", logs_response |-> e]
    /\ r = NoResponse

\* a resource client and a call of one of its pass-through operations
InitPassthrough ==
    /\ \E op \in PassthroughOps, h \in Hosts, s \in Secrets :
          /\ ctor = ClassCtor(op.cls, h, s)
          /\ client = Class_init(op.cls, h, s)
          /\ args = OpCall(op)
    /\ ncalls = 1
    /\ r \in OpResponses

\* a Sessions client and a call of is_user_online or get_user_session_details
InitSession ==
    /\ \E op \in SessionOps, h \in Hosts, s \in Secrets :
          /\ ctor = ClassCtor(op.cls, h, s)
          /\ client = Class_init(op.cls, h, s)
          /\ args = OpCall(op)
    /\ ncalls = 1
    /\ r \in SessionResponses

\* the Muc client of the listing and export scripts, before get_rooms
InitListMuc ==
    /\ \E h \in Hosts, s \in Secrets, i \in BOOLEAN :
          /\ ctor = ClassCtor("Muc", h, s)
          /\ client = Class_init("Muc", h, s)
          /\ args = [op |-> "list_muc", insecure |-> i]
    /\ ncalls = 1
    /\ r \in RoomResponses

Init ==
    /\ InitSubmit \/ InitExtract \/ InitPassthrough \/ InitSession \/ InitListMuc
    /\ pc = "ready"
    /\ request = NoRequest
    /\ outcome = NoOutcome
    /\ nrequests = 0

\* Base._submit_request(func, endpoint, **kwargs)
SubmitRequest ==
    /\ pc = "ready"
    /\ args.op = "_submit_request"
    /\ LET e == submit_request(client, args.func, args.endpoint, args.kwargs, r)
       IN  /\ client' = e.self
           /\ request' = e.request
           /\ nrequests' = nrequests + e.sent
           /\ outcome' = e.outcome
    /\ pc' = "done"
    /\ UNCHANGED <<args, r, ctor, ncalls>>

\* SecurityAuditLog.extract_log_entries(logs_response)
ExtractLogEntries ==
    /\ pc = "ready"
    /\ args.op = "extract_log_entries"
    /\ outcome' = extract_log_entries(args.logs_response)
    /\ pc' = "done"
    /\ UNCHANGED <<client, args, r, request, ctor, ncalls, nrequests>>

\* the state after the effect e of a call that talks to the server
Effect(e) ==
    /\ client' = e.self
    /\ request' = e.request
    /\ nrequests' = nrequests + e.sent
    /\ outcome' = e.outcome
    /\ pc' = "done"
    /\ UNCHANGED <<args, r, ctor, ncalls>>

\* the operations that return self._submit_request(...)
Passthrough ==
    /\ pc = "ready"
    /\ args.op \in {op.name : op \in PassthroughOps}
    /\ Effect(passthrough(client, args.operation, args.a, r))

\* Sessions.is_user_online(username)
IsUserOnline ==
    /\ pc = "ready"
    /\ args.op = "is_user_online"
    /\ Effect(is_user_online(client, args.a.name, r))

\* Sessions.get_user_session_details(username)
GetUserSessionDetails ==
    /\ pc = "ready"
    /\ args.op = "get_user_session_details"
    /\ Effect(get_user_session_details(client, args.a.name, r))

\* list_muc / export_muc up to the room list
ListMucRooms ==
    /\ pc = "ready"
    /\ args.op = "list_muc"
    /\ Effect(list_muc_rooms(client, args.insecure, r))

Next ==
    \/ SubmitRequest
    \/ ExtractLogEntries
    \/ Passthrough
    \/ IsUserOnline
    \/ GetUserSessionDetails
    \/ ListMucRooms

Spec == Init /\ [][Next]_vars

\* a resource client on which no operation has been called yet
InitCalls ==
    /\ \E cls \in ClientClasses, h \in Hosts, s \in Secrets :
          /\ ctor = ClassCtor(cls, h, s)
          /\ client = Class_init(cls, h, s)
    /\ pc = "idle"
    /\ args = NoCall
    /\ r = NoResponse
    /\ request = NoRequest
    /\ outcome = NoOutcome
    /\ ncalls = 0
    /\ nrequests = 0

\* the caller calls the next public operation of its client; r is the
\* response the server will give
Invoke ==
    /\ pc \in {"idle", "done"}
    /\ ncalls < MaxCalls
    /\ \E op \in {o \in PublicOps : o.cls = ctor.cls} : args' = OpCall(op)
    /\ r' \in CallResponses
    /\ pc' = "ready"
    /\ ncalls' = ncalls + 1
    /\ outcome' = NoOutcome
    /\ UNCHANGED <<client, request, ctor, nrequests>>

NextCalls ==
    \/ Invoke
    \/ Passthrough
    \/ IsUserOnline
    \/ GetUserSessionDetails

\* sequences of up to MaxCalls calls on one client
SpecCalls == InitCalls /\ [][NextCalls]_vars

-----------------------------------------------------------------------------
(* Properties of Base._submit_request *)

\* a call of _submit_request has finished
Submitted == pc = "done" /\ args.op = "_submit_request"

Success == r.status_code \in {200, 201}

Decodes == r.body.raw = "json"

\* the decoded body is an object
BodyIsObject == Decodes /\ r.body.doc.t = "obj"

\* the decoded body is an object with an "exception" key
Tagged == BodyIsObject /\ "exception" \in DOMAIN r.body.doc.o

\* the "exception" value is one of the 12 tags of the table
KnownTag ==
    /\ Tagged
    /\ r.body.doc.o["exception"].t = "str"
    /\ r.body.doc.o["exception"].s \in DOMAIN EXCEPTIONS_MAP

\* C1: a 200 or 201 response whose body decodes as JSON makes _submit_request
\* return the decoded value, whatever its shape, and raise nothing.
C1_SuccessReturnsDecoded ==
    (Submitted /\ Success /\ Decodes) => outcome = Return(r.body.doc)

\* a 201 response carrying a known exception tag was returned as a value
C1_Witness ==
    /\ Submitted /\ r.status_code = 201 /\ KnownTag
    /\ outcome.kind = "return" /\ outcome.value = r.body.doc

\* C2: a 200 or 201 response whose body does not decode (an empty body) makes
\* _submit_request return True and raise nothing.
C2_EmptySuccessReturnsTrue ==
    (Submitted /\ Success /\ ~Decodes) => outcome = Return(JBool(TRUE))

\* a 200 response with an empty body gave True
C2_Witness ==
    /\ Submitted /\ r.status_code = 200 /\ r.body.raw = "empty"
    /\ outcome = Return(JBool(TRUE))

\* C3: a response with another status whose body is {"exception": T,
\* "message": M}, T one of the 12 tags, makes _submit_request raise the class
\* the table assigns to T (UserNotFoundException for 'UserNotFoundException')
\* with the message M.
C3_KnownTagRaisesMapped ==
    (Submitted /\ ~Success /\ KnownTag /\ "message" \in DOMAIN r.body.doc.o) =>
        /\ outcome.kind = "raise"
        /\ outcome.exc = EXCEPTIONS_MAP[r.body.doc.o["exception"].s]
        /\ outcome.exc # "InvalidResponseException"
        /\ r.body.doc.o["exception"].s = "UserNotFoundException"
              => outcome.exc = "UserNotFoundException"
        /\ outcome.message = r.body.doc.o["message"]

\* a 404 with {"exception": "UserNotFoundException", "message": "x"} raised
\* UserNotFoundException("x")
C3_Witness ==
    /\ Submitted /\ r.status_code = 404
    /\ r.body = [raw |-> "json",
                 doc |-> JObj(Dict2("exception", JStr("UserNotFoundException"),
                                    "message", JStr("x")))]
    /\ outcome = Raise("UserNotFoundException", JStr("x"))

\* C4: a response with another status whose body does not decode makes
\* _submit_request raise InvalidResponseException with a message that carries
\* the status code.
C4_UndecodableRaisesInvalidResponse ==
    (Submitted /\ ~Success /\ ~Decodes) =>
        /\ outcome.kind = "raise"
        /\ outcome.exc = "InvalidResponseException"
        /\ outcome.message.t = "fstr"
        /\ outcome.message.arg = ToString(r.status_code)

\* a 500 with an HTML body raised InvalidResponseException naming 500
C4_Witness ==
    /\ Submitted /\ r.status_code = 500 /\ r.body.raw = "html"
    /\ outcome.kind = "raise" /\ outcome.exc = "InvalidResponseException"
    /\ outcome.message.arg = "500"

\* the "exception" value is a tag name (a str, or another JSON scalar) that
\* the table does not hold
UnknownTag ==
    /\ Tagged
    /\ Hashable(r.body.doc.o["exception"])
    /\ ~KnownTag

\* C5: a response with another status whose body carries an 'exception' tag
\* that the table does not hold makes _submit_request raise
\* InvalidResponseException with a message that carries the tag, not the
\* server's 'message'.
C5_UnknownTagRaisesInvalidResponse ==
    (Submitted /\ ~Success /\ UnknownTag) =>
        /\ outcome.kind = "raise"
        /\ outcome.exc = "InvalidResponseException"
        /\ outcome.message = FStr("Unknown exception: ",
                                  PyStr(r.body.doc.o["exception"]))

\* a 400 with {"exception": "SomeOtherException", "message": "x"} raised
\* InvalidResponseException naming SomeOtherException
C5_Witness ==
    /\ Submitted /\ r.status_code = 400
    /\ r.body = [raw |-> "json",
                 doc |-> JObj(Dict2("exception", JStr("SomeOtherException"),
                                    "message", JStr("x")))]
    /\ outcome = Raise("InvalidResponseException",
                       FStr("Unknown exception: ", "SomeOtherException"))

\* C6: for a response with another status and any body, what _submit_request
\* raises is one of the 12 mapped classes or InvalidResponseException, hence
\* an OpenfireApiException.
C6_ClosedFailureKinds ==
    (Submitted /\ ~Success) =>
        /\ outcome.kind = "raise"
        /\ outcome.exc \in OpenfireApiException

-----------------------------------------------------------------------------
(* Properties of SecurityAuditLog.extract_log_entries *)

\* a call of extract_log_entries has finished
Extracted == pc = "done" /\ args.op = "extract_log_entries"

\* the envelope is a mapping
EnvIsObject == args.logs_response.t = "obj"

\* the envelope is a mapping with the outer key
HasLogs == EnvIsObject /\ "logs" \in DOMAIN args.logs_response.o

\* the value under the outer key is a mapping with the secondary key
HasLog ==
    /\ HasLogs
    /\ args.logs_response.o["logs"].t = "obj"
    /\ "log" \in DOMAIN args.logs_response.o["logs"].o

\* C7: when the outer key 'logs' is missing, or its value is null, an empty
\* sequence or an empty mapping, and when the envelope is empty or absent,
\* extract_log_entries returns the empty list.
C7_MissingOrEmptyGivesEmptyList ==
    (/\ Extracted
     /\ \/ args.logs_response \in {JNull, JObj(EmptyDict), JArr(<<>>)}
        \/ EnvIsObject /\ ~HasLogs
        \/ HasLogs /\ args.logs_response.o["logs"]
                          \in {JNull, JArr(<<>>), JObj(EmptyDict)})
    => outcome = Return(JArr(<<>>))

\* {"logs": {}} gave the empty list
C7_Witness ==
    /\ Extracted
    /\ args.logs_response = JObj(Dict1("logs", JObj(EmptyDict)))
    /\ outcome = Return(JArr(<<>>))

\* C8: for {"logs": {"log": m}} with m a single mapping, extract_log_entries
\* returns a list of length 1 whose element is m.
C8_SingleMappingIsWrapped ==
    (Extracted /\ HasLog /\ args.logs_response.o["logs"].o["log"].t = "obj") =>
        /\ outcome.kind = "return"
        /\ outcome.value.t = "arr"
        /\ Len(outcome.value.a) = 1
        /\ outcome.value.a[1] = args.logs_response.o["logs"].o["log"]

\* {"logs": {"log": {"logId": 1}}} gave [{"logId": 1}]
C8_Witness ==
    /\ Extracted
    /\ args.logs_response = JObj(Dict1("logs", JObj(Dict1("log", Entry(1)))))
    /\ outcome = Return(JArr(<<Entry(1)>>))

\* C9: for {"logs": {"log": s}} with s a sequence of any length,
\* extract_log_entries returns s: same elements, same order, same length.
C9_SequenceUnderLogIsReturned ==
    (Extracted /\ HasLog /\ args.logs_response.o["logs"].o["log"].t = "arr") =>
        outcome = Return(args.logs_response.o["logs"].o["log"])

\* {"logs": {"log": [e1, e2]}} with two different entries gave [e1, e2]
C9_Witness ==
    /\ Extracted /\ HasLog
    /\ args.logs_response.o["logs"].o["log"].t = "arr"
    /\ Len(args.logs_response.o["logs"].o["log"].a) = 2
    /\ args.logs_response.o["logs"].o["log"].a[1]
          # args.logs_response.o["logs"].o["log"].a[2]
    /\ outcome.kind = "return"
    /\ outcome.value = args.logs_response.o["logs"].o["log"]

\* C10: for {"logs": s} with s a sequence, extract_log_entries returns s.
C10_SequenceUnderLogsIsReturned ==
    (Extracted /\ HasLogs /\ args.logs_response.o["logs"].t = "arr") =>
        outcome = Return(args.logs_response.o["logs"])

\* {"logs": [e1, e2]} with two different entries gave [e1, e2]
C10_Witness ==
    /\ Extracted /\ HasLogs
    /\ args.logs_response.o["logs"].t = "arr"
    /\ Len(args.logs_response.o["logs"].a) = 2
    /\ args.logs_response.o["logs"].a[1] # args.logs_response.o["logs"].a[2]
    /\ outcome.kind = "return"
    /\ outcome.value = args.logs_response.o["logs"]

\* C11: extract_log_entries never raises: for every value _submit_request can
\* return on success (an object of any shape, an array, a string, a number,
\* null, or the True of an empty body) it returns a list.
C11_NormalizerNeverRaises ==
    Extracted =>
        /\ outcome.kind = "return"
        /\ IsList(outcome.value)

\* C12: whatever extract_log_entries returns is a list, never null, a scalar
\* or a mapping, also when 'log' holds a value that is neither a mapping nor a
\* sequence, as in {"logs": {"log": null}}.
C12_ResultIsAList ==
    (Extracted /\ outcome.kind = "return") => outcome.value.t = "arr"

-----------------------------------------------------------------------------
(* Properties of the session and room normalisation *)

\* a call of get_user_session_details has finished
DetailsDone == pc = "done" /\ args.op = "get_user_session_details"

\* a call of is_user_online has finished
OnlineDone == pc = "done" /\ args.op = "is_user_online"

\* the scripts have computed the room list
RoomsDone == pc = "done" /\ args.op = "list_muc"

\* C13: for every envelope E answered to the session request, the list
\* get_user_session_details derives from E (outer key 'sessions', secondary
\* key 'session') is what extract_log_entries gives for E with the keys
\* renamed to 'logs' and 'log'.
C13_SessionsNormalizedLikeLogs ==
    (DetailsDone /\ Success /\ Decodes) =>
        outcome = extract_log_entries(
                      RenameKeys(r.body.doc, "sessions", "session", "logs", "log"))

\* the value under chatRooms in the answer to get_rooms
ChatRooms == r.body.doc.o["chatRooms"]

\* C14: when get_rooms answers {"chatRooms": {"chatRoom": m}} with m a single
\* room mapping, the room list the scripts iterate over is [m]; when chatRoom
\* is a sequence, or chatRooms itself is one, the room list is that sequence.
C14_RoomsNormalized ==
    (RoomsDone /\ Success /\ BodyIsObject /\ "chatRooms" \in DOMAIN r.body.doc.o) =>
        /\ IsList(ChatRooms) => outcome = Return(ChatRooms)
        /\ (IsDict(ChatRooms) /\ "chatRoom" \in DOMAIN ChatRooms.o) =>
              /\ IsList(ChatRooms.o["chatRoom"])
                    => outcome = Return(ChatRooms.o["chatRoom"])
              /\ IsDict(ChatRooms.o["chatRoom"])
                    => outcome = Return(JArr(<<ChatRooms.o["chatRoom"]>>))

-----------------------------------------------------------------------------
(* Properties of the public operations *)

\* a call of a public operation that talks to the server has finished
OpDone == pc = "done" /\ args.op \in {op.name : op \in PublicOps}

\* the typed error _submit_request raises for the response r
TypedError ==
    Raise(EXCEPTIONS_MAP[r.body.doc.o["exception"].s],
          DictGet(r.body.doc, "message", JStr("Unknown error")))

\* C15 as stated: for every public operation of every resource client, a
\* response with another status than 200/201 and a known exception tag reaches
\* the caller as the corresponding typed error.
C15_EveryFailurePropagates ==
    (OpDone /\ ~Success /\ KnownTag) => outcome = TypedError

\* C15 as amended: the typed error reaches the caller of every public
\* operation except Sessions.is_user_online and
\* Sessions.get_user_session_details, which catch it and return False and the
\* empty list.
C15_FailurePropagatesExceptSessionChecks ==
    (OpDone /\ ~Success /\ KnownTag) =>
        CASE args.op = "is_user_online" -> outcome = Return(JBool(FALSE))
          [] args.op = "get_user_session_details" -> outcome = Return(JArr(<<>>))
          [] OTHER -> outcome = TypedError

\* Users.lock_user answered 404 with a UserNotFoundException tag raised
\* UserNotFoundException
C15_Witness ==
    /\ OpDone /\ args.op = "lock_user"
    /\ r.status_code = 404 /\ KnownTag
    /\ outcome.kind = "raise" /\ outcome.exc = "UserNotFoundException"

\* C16: every call of a public operation that talks to the server sends
\* exactly one HTTP request, whether it succeeds or fails: after n calls n
\* requests have been sent.
C16_OneRequestPerCall ==
    /\ pc \in {"idle", "done"} => nrequests = ncalls
    /\ pc = "ready" => nrequests = ncalls - 1

\* the last of MaxCalls calls failed and MaxCalls requests were sent
C16_Witness ==
    /\ pc = "done" /\ ncalls = MaxCalls /\ nrequests = MaxCalls
    /\ r.status_code = 404 /\ outcome.kind = "raise"

\* C17: every request a client sends, for every operation and after any
\* sequence of earlier operations, carries an Authorization header equal to the
\* secret the client was constructed with.
C17_AuthorizationIsSecret ==
    request # NoRequest =>
        request.kwargs.headers["Authorization"] = ctor.secret

\* the second request of a client constructed with "s3cret" carried "s3cret"
C17_Witness ==
    /\ pc = "done" /\ nrequests = 2 /\ ctor.secret = "s3cret"
    /\ request # NoRequest
    /\ request.kwargs.headers["Authorization"] = "s3cret"

\* C18: after any sequence of operations, whatever their outcomes, the host,
\* endpoint, headers and verify_ssl of the client are the values set at
\* construction.
C18_ClientUnchanged ==
    /\ client.host = ctor.host
    /\ client.endpoint = ctor.endpoint
    /\ client.headers = [Authorization |-> ctor.secret, Accept |-> "application/json"]
    /\ client.verify_ssl = ctor.verify_ssl

\* two operations of Users on another endpoint than the client's have run,
\* the last one lock_user, and the client is as constructed
C18_Witness ==
    /\ pc = "done" /\ ncalls = 2 /\ args.op = "lock_user"
    /\ request # NoRequest
    /\ request.kwargs.url = <<ctor.host, "/plugins/restapi/v1/lockouts/admin">>
    /\ client = Construct(ctor)

\* the operations documented to return True if successful that C19 names
MutatingOps ==
    { "add_user", "update_user", "delete_user", "add_group", "update_group",
      "delete_group", "add_room", "update_room", "delete_room", "update_prop",
      "delete_prop", "send_broadcast" }

\* C19: whenever the server answers one of the mutating operations with 200
\* or 201, the operation's result is truthy, whatever the body.
C19_MutationReturnsTrue ==
    (OpDone /\ args.op \in MutatingOps /\ Success) =>
        /\ outcome.kind = "return"
        /\ Truthy(outcome.value)

\* C20: is_user_online returns True exactly when the session list
\* get_user_session_details derives from the same response is not empty.
C20_OnlineIffSessions ==
    OnlineDone =>
        (outcome = Return(JBool(TRUE)))
            <=> (get_user_session_details(client, args.a.name, r).outcome
                    # Return(JArr(<<>>)))

-----------------------------------------------------------------------------
(* Further properties of Base._submit_request and of the session checks *)

\* C23: for every status other than 200 and 201, other 2xx codes included,
\* _submit_request does not return a value; when the body is empty it raises
\* InvalidResponseException with the status code in its message.
C23_OnlyOkAndCreatedSucceed ==
    (Submitted /\ ~Success) =>
        /\ outcome.kind = "raise"
        /\ r.body.raw = "empty" =>
              outcome = Raise("InvalidResponseException",
                              FStr("Invalid response with status code: ",
                                   ToString(r.status_code)))

\* status 204 with an empty body raised InvalidResponseException
C23_Witness ==
    /\ Submitted /\ r.status_code = 204 /\ r.body.raw = "empty"
    /\ outcome.kind = "raise" /\ outcome.exc = "InvalidResponseException"

\* C24: for a status other than 200/201 and a JSON object body, a known tag
\* without a 'message' key raises the typed error with message 'Unknown
\* error', and a body without an 'exception' key raises
\* InvalidResponseException whatever 'message' holds.
C24_MissingMessageOrTag ==
    (Submitted /\ ~Success /\ BodyIsObject) =>
        /\ (KnownTag /\ "message" \notin DOMAIN r.body.doc.o) =>
              outcome = Raise(EXCEPTIONS_MAP[r.body.doc.o["exception"].s],
                              JStr("Unknown error"))
        /\ "exception" \notin DOMAIN r.body.doc.o =>
              /\ outcome.kind = "raise"
              /\ outcome.exc = "InvalidResponseException"

\* a body {"exception": "RoomNotFoundException"} raised RoomNotFoundException
\* with the default message
C24_Witness ==
    /\ Submitted /\ ~Success
    /\ r.body = [raw |-> "json", doc |-> JObj(Dict1("exception", JStr("RoomNotFoundException")))]
    /\ outcome = Raise("RoomNotFoundException", JStr("Unknown error"))

\* the names of the operations that talk to the server through a resource client
ClientCalls == {op.name : op \in PublicOps} \cup {"list_muc"}

\* C25: the verify flag of a request is the caller's 'verify' argument when
\* one is passed to _submit_request and the client's verify_ssl at the time of
\* the call otherwise; a resource client built by its public constructor
\* starts with verify_ssl = True.
C25_VerifyFlag ==
    /\ Submitted =>
          request.kwargs.verify = IF args.kwargs.has_verify THEN args.kwargs.verify
                                  ELSE client.verify_ssl
    /\ (pc = "done" /\ args.op \in ClientCalls) =>
          request.kwargs.verify = client.verify_ssl
    /\ (pc = "ready" /\ ctor.cls \in ClientClasses) => client.verify_ssl = TRUE

\* a caller passed verify=False to a client with verify_ssl = True and the
\* request went out with verify False
C25_Witness ==
    /\ Submitted /\ args.kwargs.has_verify /\ args.kwargs.verify = FALSE
    /\ client.verify_ssl = TRUE
    /\ request.kwargs.verify = FALSE

\* what get_user_sessions gives for the call in progress
UserSessions == get_user_sessions(client, args.a.name, r).outcome

\* get_user_sessions raised, or returned the True of an empty body
NoSessionEnvelope == UserSessions.kind = "raise" \/ UserSessions = Return(JBool(TRUE))

\* C27: is_user_online and get_user_session_details never raise; the first
\* returns a boolean and the second a list, and when the session request
\* failed (typed failure, InvalidResponse) or gave the True of an empty body
\* they return False and the empty list.
C27_SessionChecksNeverRaise ==
    /\ OnlineDone =>
          /\ outcome.kind = "return" /\ outcome.value.t = "bool"
          /\ NoSessionEnvelope => outcome = Return(JBool(FALSE))
    /\ DetailsDone =>
          /\ outcome.kind = "return" /\ outcome.value.t = "arr"
          /\ NoSessionEnvelope => outcome = Return(JArr(<<>>))

\* get_user_session_details answered 500 with a body that is not JSON
\* returned the empty list
C27_Witness ==
    /\ DetailsDone /\ r.status_code = 500 /\ r.body.raw = "html"
    /\ UserSessions.kind = "raise"
    /\ outcome = Return(JArr(<<>>))

-----------------------------------------------------------------------------
(* SecurityAuditLog.get_logs and the operations built on it *)

\* largest offset and largest timestamp of the calls of the model
MaxOffset == 1
MaxTime == 1

\* the keys get_logs puts into params when `offset` is tested for truth
get_logs_keys_truthy(username, offset, limit, start_time, end_time) ==
    {k \in {"username"} : Truthy(username)}
    \cup {k \in {"offset"} : Truthy(offset)}
    \cup {k \in {"limit"} : ~(limit.t = "num" /\ limit.n = 100)}
    \cup {k \in {"startTime"} : start_time.t # "null"}
    \cup {k \in {"endTime"} : end_time.t # "null"}

\* the keys get_logs puts into params
get_logs_keys(username, offset, limit, start_time, end_time) ==
    \* if username:
    {k \in {"username"} : Truthy(username)}
    \* if offset is not None:
    \cup {k \in {"offset"} : offset.t # "null"}
    \* if limit != 100:
    \cup {k \in {"limit"} : ~(limit.t = "num" /\ limit.n = 100)}
    \* if start_time is not None:
    \cup {k \in {"startTime"} : start_time.t # "null"}
    \* if end_time is not None:
    \cup {k \in {"endTime"} : end_time.t # "null"}

\* params as get_logs builds it
get_logs_params(username, offset, limit, start_time, end_time) ==
    [k \in get_logs_keys(username, offset, limit, start_time, end_time) |->
        CASE k = "username"  -> username
          [] k = "offset"    -> offset
          [] k = "limit"     -> limit
          [] k = "startTime" -> start_time
          [] k = "endTime"   -> end_time]

\* SecurityAuditLog.get_logs(username, offset, limit, start_time, end_time):
\* self._submit_request(get, self.endpoint, params=params); params is handed
\* to the requests function with the other keyword arguments
get_logs(self, username, offset, limit, start_time, end_time, resp) ==
    LET e == submit_request(self, "get", self.endpoint, OpKwargs, resp) IN
    [ self    |-> e.self,
      request |-> [ func   |-> e.request.func,
                    kwargs |-> e.request.kwargs,
                    params |-> get_logs_params(username, offset, limit,
                                               start_time, end_time) ],
      sent    |-> e.sent,
      outcome |-> e.outcome ]

\* SecurityAuditLog.get_logs_by_username(username, limit)
get_logs_by_username(self, username, limit, resp) ==
    get_logs(self, username, JNull, limit, JNull, JNull, resp)

\* SecurityAuditLog.get_recent_logs(limit)
get_recent_logs(self, limit, resp) ==
    get_logs(self, JNull, JNull, limit, JNull, JNull, resp)

\* SecurityAuditLog.get_logs_in_timeframe(start_time, end_time, limit)
get_logs_in_timeframe(self, start_time, end_time, limit, resp) ==
    get_logs(self, JNull, JNull, limit, start_time, end_time, resp)

\* the arguments of the calls
UsernameStrings == {JStr(""), JStr("admin")}
Usernames == {JNull} \cup UsernameStrings
Offsets == {JNull} \cup {JNum(n) : n \in 0..MaxOffset}
Limits == {JNum(100), JNum(20), JNum(0)}
Timestamps == {JNum(n) : n \in 0..MaxTime}
Times == {JNull} \cup Timestamps

\* the answers of the server to a query of the log
LogResponses ==
    { [status_code |-> c, body |-> b] :
        c \in {200, 500},
        b \in NoJsonBodies
              \cup JsonBodies({JObj(Dict1("logs", JObj(Dict1("log", Entry(1)))))}) }

LogCalls ==
    { [op |-> "get_logs", username |-> u, offset |-> o, limit |-> l,
       start_time |-> s, end_time |-> e] :
        u \in Usernames, o \in Offsets, l \in Limits, s \in Times, e \in Times }
    \cup { [op |-> "get_logs_by_username", username |-> u, limit |-> l] :
             u \in UsernameStrings, l \in Limits }
    \cup { [op |-> "get_recent_logs", limit |-> l] : l \in Limits }
    \cup { [op |-> "get_logs_in_timeframe", start_time |-> s, end_time |-> e,
            limit |-> l] :
             s \in Timestamps, e \in Timestamps, l \in Limits }

\* a SecurityAuditLog client and a query of the log
InitLogs ==
    /\ \E h \in Hosts, s \in Secrets :
          /\ ctor = ClassCtor("SecurityAuditLog", h, s)
          /\ client = Class_init("SecurityAuditLog", h, s)
    /\ args \in LogCalls
    /\ r \in LogResponses
    /\ pc = "ready"
    /\ request = NoRequest
    /\ outcome = NoOutcome
    /\ ncalls = 1
    /\ nrequests = 0

GetLogs ==
    /\ pc = "ready"
    /\ args.op = "get_logs"
    /\ Effect(get_logs(client, args.username, args.offset, args.limit,
                       args.start_time, args.end_time, r))

GetLogsByUsername ==
    /\ pc = "ready"
    /\ args.op = "get_logs_by_username"
    /\ Effect(get_logs_by_username(client, args.username, args.limit, r))

GetRecentLogs ==
    /\ pc = "ready"
    /\ args.op = "get_recent_logs"
    /\ Effect(get_recent_logs(client, args.limit, r))

GetLogsInTimeframe ==
    /\ pc = "ready"
    /\ args.op = "get_logs_in_timeframe"
    /\ Effect(get_logs_in_timeframe(client, args.start_time, args.end_time,
                                    args.limit, r))

NextLogs ==
    \/ GetLogs
    \/ GetLogsByUsername
    \/ GetRecentLogs
    \/ GetLogsInTimeframe

\* one query of the security audit log
SpecLogs == InitLogs /\ [][NextLogs]_vars

\* a query of the log has been sent
LogsDone(op) == pc = "done" /\ args.op = op

\* C21: for every username string, the request of
\* get_logs_by_username(username, limit) carries the query parameter
\* 'username' with the given username.
C21_ByUsernameIsFiltered ==
    LogsDone("get_logs_by_username") =>
        /\ "username" \in DOMAIN request.params
        /\ request.params["username"] = args.username

\* C26: the params of get_logs hold 'username' iff username is a non-empty
\* string, 'offset' iff offset is not None, 'limit' iff limit differs from 100,
\* 'startTime' iff start_time is not None, 'endTime' iff end_time is not None,
\* each with the given value and no other key; get_recent_logs and
\* get_logs_in_timeframe send the request get_logs sends for their arguments.
C26_QueryParameters ==
    /\ LogsDone("get_logs") =>
          LET p == request.params IN
          /\ DOMAIN p \subseteq {"username", "offset", "limit", "startTime", "endTime"}
          /\ "username" \in DOMAIN p
                <=> (args.username.t = "str" /\ args.username.s # "")
          /\ "offset" \in DOMAIN p <=> args.offset.t # "null"
          /\ "limit" \in DOMAIN p <=> args.limit.n # 100
          /\ "startTime" \in DOMAIN p <=> args.start_time.t # "null"
          /\ "endTime" \in DOMAIN p <=> args.end_time.t # "null"
          /\ "username" \in DOMAIN p => p["username"] = args.username
          /\ "offset" \in DOMAIN p => p["offset"] = args.offset
          /\ "limit" \in DOMAIN p => p["limit"] = args.limit
          /\ "startTime" \in DOMAIN p => p["startTime"] = args.start_time
          /\ "endTime" \in DOMAIN p => p["endTime"] = args.end_time
    /\ LogsDone("get_recent_logs") =>
          request = get_logs(client, JNull, JNull, args.limit, JNull, JNull, r).request
    /\ LogsDone("get_logs_in_timeframe") =>
          request = get_logs(client, JNull, JNull, args.limit,
                             args.start_time, args.end_time, r).request

\* get_logs with offset 0, end_time 0 and the default limit sent exactly
\* offset=0 and endTime=0
C26_Witness ==
    /\ LogsDone("get_logs")
    /\ args.username = JNull /\ args.offset = JNum(0) /\ args.limit = JNum(100)
    /\ args.start_time = JNull /\ args.end_time = JNum(0)
    /\ DOMAIN request.params = {"offset", "endTime"}
    /\ request.params["offset"] = JNum(0)
    /\ request.params["endTime"] = JNum(0)

-----------------------------------------------------------------------------
(* The export scripts: send_to_filebeat and the per-user loop of           *)
(* scripts/export_users_for_elasticsearch.py                               *)

\* longest list of entries handed to send_to_filebeat
MaxEntries == 2

\* the three export scripts and the key under which an entry holds its identifier
IdKey == [security |-> "logId", muc |-> "roomName", users |-> "username"]

Scripts == DOMAIN IdKey

\* the resource client each script exports from
ScriptClient == [security |-> "SecurityAuditLog", muc |-> "Muc", users |-> "Users"]

\* results = {"success": 0, "failure": 0, "failed_logs": []}; posts counts the
\* calls of requests.post
NoResults == [success |-> 0, failure |-> 0, failed |-> <<>>, posts |-> 0]

\* data = prepare_log_for_filebeat(log, host_info) /
\* prepare_room_for_filebeat(...) returns; export_users takes data = user
prepare_for_filebeat(script, f) == script = "users" \/ f.prepared

\* results["failure"] += 1; results["failed_logs"].append(log.get("logId"))
count_failure(script, f, res) ==
    [res EXCEPT !.failure = @ + 1,
                !.failed = Append(@, DictGet(f.log, IdKey[script], JNull))]

\* a loop body that posts in dry-run mode too
send_entry_posts_in_dry_run(script, f, url, dry_run, res) ==
    IF ~prepare_for_filebeat(script, f) THEN count_failure(script, f, res)
    ELSE IF ~Truthy(url) THEN
        IF dry_run THEN [res EXCEPT !.success = @ + 1]
        ELSE count_failure(script, f, res)
    ELSE LET posted == [res EXCEPT !.posts = @ + 1] IN
         IF f.post.kind = "exception" THEN count_failure(script, f, posted)
         ELSE IF f.post.status_code >= 200 /\ f.post.status_code < 300
         THEN [posted EXCEPT !.success = @ + 1]
         ELSE count_failure(script, f, posted)

\* a loop body whose except clause does not record the entry
send_entry_drops_exception(script, f, url, dry_run, res) ==
    IF ~prepare_for_filebeat(script, f) THEN res
    ELSE IF dry_run THEN [res EXCEPT !.success = @ + 1]
    ELSE IF ~Truthy(url) THEN count_failure(script, f, res)
    ELSE LET posted == [res EXCEPT !.posts = @ + 1] IN
         IF f.post.kind = "exception" THEN posted
         ELSE IF f.post.status_code >= 200 /\ f.post.status_code < 300
         THEN [posted EXCEPT !.success = @ + 1]
         ELSE count_failure(script, f, posted)

\* the body of `for log in logs:`; f holds the entry, whether its preparation
\* returns, and what requests.post does for it
send_entry(script, f, url, dry_run, res) ==
    \* the preparation raised: except Exception
    IF ~prepare_for_filebeat(script, f) THEN count_failure(script, f, res)
    \* if dry_run: results["success"] += 1; continue
    ELSE IF dry_run THEN [res EXCEPT !.success = @ + 1]
    \* if not url:
    ELSE IF ~Truthy(url) THEN count_failure(script, f, res)
    ELSE LET posted == [res EXCEPT !.posts = @ + 1] IN
         \* requests.post raised: except Exception
         IF f.post.kind = "exception" THEN count_failure(script, f, posted)
         ELSE IF f.post.status_code >= 200 /\ f.post.status_code < 300
         THEN [posted EXCEPT !.success = @ + 1]
         ELSE count_failure(script, f, posted)

\* for log in logs: ...
RECURSIVE send_loop(_, _, _, _, _)
send_loop(script, fs, url, dry_run, res) ==
    IF fs = <<>> THEN res
    ELSE send_loop(script, Tail(fs), url, dry_run,
                   send_entry(script, Head(fs), url, dry_run, res))

\* send_to_filebeat(logs, url, host_info, insecure, dry_run)
send_to_filebeat(self, script, fs, url, insecure, dry_run) ==
    LET res == send_loop(script, fs, url, dry_run, NoResults) IN
    [ self    |-> self,
      request |-> IF res.posts = 0 THEN NoRequest
                  ELSE [ func |-> "post",
                         kwargs |-> [ url |-> url,
                                      headers |-> [ContentType |-> "application/json"],
                                      verify |-> ~insecure ] ],
      sent    |-> res.posts,
      outcome |-> Return([ success |-> res.success, failure |-> res.failure,
                           failed |-> res.failed ]) ]

\* the methods of Muc
MucMethods == {o.name : o \in {p \in PassthroughOps : p.cls = "Muc"}}

\* muc_api.get_user_rooms(username, servicename="conference")
get_user_rooms(answer) ==
    IF "get_user_rooms" \in MucMethods THEN Return(answer)
    ELSE Raise("AttributeError",
               FStr("'Muc' object has no attribute ", "get_user_rooms"))

\* room_info of the per-user loop: None, or what get_user_rooms returns; a
\* raised exception is reported as a warning and leaves None
room_info_of(include_rooms, username, answer) ==
    IF include_rooms /\ Truthy(username)
    THEN LET c == get_user_rooms(answer) IN
         IF c.kind = "raise" THEN JNull ELSE c.value
    ELSE JNull

\* the keys of the document of a user
user_keys(session_info, room_info) ==
    {"username", "name", "email", "properties"}
    \cup {k \in {"login_status"} : session_info.t # "null"}
    \cup {k \in {"room_memberships"} : room_info.t # "null"}

\* prepare_user_for_filebeat(user, host_info, session_info, room_info), without
\* the host, server and time fields
prepare_user_for_filebeat(user, session_info, room_info) ==
    JObj([k \in user_keys(session_info, room_info) |->
            CASE k = "properties" -> JObj(EmptyDict)
              [] k = "login_status" ->
                    JObj(Dict1("is_online", DictGet(session_info, "is_online", JBool(FALSE))))
              [] k = "room_memberships" ->
                    JObj(Dict2("current_rooms",
                               DictGet(room_info, "occupied_rooms", JArr(<<>>)),
                               "affiliated_rooms",
                               DictGet(room_info, "affiliated_rooms", JObj(EmptyDict))))
              [] OTHER -> DictGet(user, k, JNull)])

\* the body of `for user in users_list:` with --no-include-sessions
export_user(self, user, include_rooms, answer) ==
    [ self    |-> self,
      request |-> NoRequest,
      sent    |-> 0,
      outcome |-> Return(prepare_user_for_filebeat(
                            user, JNull,
                            room_info_of(include_rooms,
                                         DictGet(user, "username", JNull), answer))) ]

\* what requests.post does for an entry
Posts ==
    {[kind |-> "response", status_code |-> c] : c \in {204, 300}}
    \cup {[kind |-> "exception"]}

\* an entry of a script with identifier i, and one without identifier
FilebeatEntries(script) ==
    {JObj(Dict1(IdKey[script], JNum(i))) : i \in 1..MaxLogId} \cup {JObj(EmptyDict)}

Fates(script) ==
    [log : FilebeatEntries(script), prepared : BOOLEAN, post : Posts]

FateLists(script) == UNION {[1..n -> Fates(script)] : n \in 0..MaxEntries}

\* --url
Urls == {JNull, JStr("http://filebeat:8080")}

\* the users of the server and what a room lookup would answer
ExportUsers ==
    { JObj(Dict1("username", JStr("admin"))),
      JObj(Dict2("username", JStr("admin"), "name", JStr("Administrator"))),
      JObj(Dict1("username", JStr(""))),
      JObj(Dict1("name", JStr("Administrator"))) }

RoomAnswers ==
    { JObj(EmptyDict),
      JObj(Dict1("occupied_rooms", JArr(<<JStr("lobby")>>))) }

InitSend ==
    \E script \in Scripts, h \in Hosts :
       /\ ctor = ClassCtor(ScriptClient[script], h, "fred")
       /\ client = Class_init(ScriptClient[script], h, "fred")
       /\ \E fs \in FateLists(script), u \in Urls, i \in BOOLEAN, d \in BOOLEAN :
             args = [ op |-> "send_to_filebeat", script |-> script, entries |-> fs,
                      url |-> u, insecure |-> i, dry_run |-> d ]

InitExportUser ==
    \E h \in Hosts, s \in Secrets :
       /\ ctor = ClassCtor("Muc", h, s)
       /\ client = Class_init("Muc", h, s)
       /\ \E u \in ExportUsers, i \in BOOLEAN, a \in RoomAnswers :
             args = [ op |-> "export_user", user |-> u, include_rooms |-> i,
                      answer |-> a ]

InitExport ==
    /\ InitSend \/ InitExportUser
    /\ r = NoResponse
    /\ pc = "ready"
    /\ request = NoRequest
    /\ outcome = NoOutcome
    /\ ncalls = 1
    /\ nrequests = 0

SendToFilebeat ==
    /\ pc = "ready"
    /\ args.op = "send_to_filebeat"
    /\ Effect(send_to_filebeat(client, args.script, args.entries, args.url,
                               args.insecure, args.dry_run))

ExportUser ==
    /\ pc = "ready"
    /\ args.op = "export_user"
    /\ Effect(export_user(client, args.user, args.include_rooms, args.answer))

NextExport ==
    \/ SendToFilebeat
    \/ ExportUser

\* one run of send_to_filebeat, or of the per-user loop body
SpecExport == InitExport /\ [][NextExport]_vars

-----------------------------------------------------------------------------
(* Properties of the export scripts *)

\* the per-user loop body has produced the document of the user
UserExported == pc = "done" /\ args.op = "export_user"

\* C22: with --include-rooms, the exported document of every user that has a
\* username carries a 'room_memberships' field.
C22_RoomMembershipsIncluded ==
    (UserExported /\ args.include_rooms
        /\ Truthy(DictGet(args.user, "username", JNull))) =>
        "room_memberships" \in DOMAIN outcome.value.o

\* send_to_filebeat has returned
SendDone == pc = "done" /\ args.op = "send_to_filebeat"

\* the entry of fate f could be prepared
Preparable(f) == args.script = "users" \/ f.prepared

\* the entry of fate f was delivered, or shown in a dry run
Succeeds(f) ==
    /\ Preparable(f)
    /\ \/ args.dry_run
       \/ /\ args.url.t = "str" /\ args.url.s # ""
          /\ f.post.kind = "response"
          /\ f.post.status_code \in 200..299

\* the identifiers of the entries that did not succeed, in input order
RECURSIVE FailedIds(_)
FailedIds(fs) ==
    IF fs = <<>> THEN <<>>
    ELSE (IF Succeeds(Head(fs)) THEN <<>>
          ELSE <<DictGet(Head(fs).log, IdKey[args.script], JNull)>>)
         \o FailedIds(Tail(fs))

\* C28: after send_to_filebeat has processed a list of entries with any mix
\* of outcomes, success + failure is the number of entries, the failed list
\* has `failure` elements, and it holds the identifiers of exactly the entries
\* that did not succeed, in input order.
C28_EveryEntryCountedOnce ==
    SendDone =>
        /\ outcome.kind = "return"
        /\ outcome.value.success + outcome.value.failure = Len(args.entries)
        /\ Len(outcome.value.failed) = outcome.value.failure
        /\ outcome.value.failed = FailedIds(args.entries)

\* a list of MaxEntries entries was sent to a URL; the first was accepted, the
\* last met a transport exception and is the one failed entry
C28_Witness ==
    /\ SendDone /\ ~args.dry_run /\ args.url.t = "str"
    /\ Len(args.entries) = MaxEntries
    /\ Succeeds(args.entries[1])
    /\ Preparable(args.entries[MaxEntries])
    /\ args.entries[MaxEntries].post.kind = "exception"
    /\ outcome.value.failure = 1
    /\ outcome.value.failed
          = <<DictGet(args.entries[MaxEntries].log, IdKey[args.script], JNull)>>

\* C29: with dry_run = True, send_to_filebeat performs no HTTP POST, whether
\* the URL is present or absent, and counts every entry it could prepare as a
\* success.
C29_DryRunSendsNothing ==
    (SendDone /\ args.dry_run) =>
        /\ nrequests = 0
        /\ request = NoRequest
        /\ outcome.value.success
              = Cardinality({i \in 1..Len(args.entries) : Preparable(args.entries[i])})

\* a dry run with a URL over MaxEntries entries, all preparable, posted
\* nothing and counted MaxEntries successes
C29_Witness ==
    /\ SendDone /\ args.dry_run /\ args.url.t = "str"
    /\ Len(args.entries) = MaxEntries
    /\ \A i \in 1..MaxEntries : Preparable(args.entries[i])
    /\ outcome.value.success = MaxEntries
    /\ nrequests = 0

====
